---- MODULE Spec2Model ----
(***************************************************************************)
(* gitlab-recurring-issues: a CI job that walks a directory of Markdown    *)
(* templates, reads the YAML frontmatter of each, and creates a GitLab     *)
(* issue for every template whose next cron occurrence after the last      *)
(* successful run is already in the past.                                  *)
(*                                                                         *)
(* Conventions of the model                                                *)
(*   - a string is a sequence of one-character strings (tokens);           *)
(*   - a time is a number of minutes since the Unix epoch; the zero value  *)
(*     of time.Time (1 January of year 1) is ZeroTime;                     *)
(*   - a duration is a number of minutes;                                  *)
(*   - a result that may be an error is a record with a field ok.          *)
(***************************************************************************)
EXTENDS Integers, Sequences, FiniteSets, TLC

\* ------------------------------------------------------------------ bounds

\* The clock runs from StartTime to MaxTime.
MaxTime == 5

\* The number of runs of the job.
MaxRuns == 3

\* The number of successful pipelines of the project that do not hold the job.
MaxOther == 1

\* ------------------------------------------------------- program constants

\* time.Unix(0, 0)
Epoch == 0

\* time.Time{}: 0001-01-01T00:00:00Z in minutes since the epoch. It is what
\* cronexpr's Next returns when no later instant matches, and what
\* metadata.NextTime holds before it is set.
ZeroTime == -1035593280

\* ---------------------------------------------------------------- strings

Digits == <<"0", "1", "2", "3", "4", "5", "6", "7", "8", "9">>

IsDigit(c) == \E i \in 1..10 : Digits[i] = c

DigitVal(c) == (CHOOSE i \in 1..10 : Digits[i] = c) - 1

Tail2(s, i) == SubSeq(s, i, Len(s))

\* filepath.Ext: the suffix that starts at the last dot of the last element
\* of the path, or the empty string when that element has no dot.
RECURSIVE ExtFrom(_, _)
ExtFrom(path, i) ==
    IF i < 1 \/ path[i] = "/" THEN <<>>
    ELSE IF path[i] = "." THEN Tail2(path, i)
    ELSE ExtFrom(path, i - 1)

Ext(path) == ExtFrom(path, Len(path))

\* strconv.Atoi: an optional sign and then decimal digits, at least one.
RECURSIVE AtoiDigits(_, _)
AtoiDigits(s, n) ==
    IF s = <<>> THEN [ok |-> TRUE, val |-> n]
    ELSE IF ~IsDigit(Head(s)) THEN [ok |-> FALSE, val |-> 0]
    ELSE AtoiDigits(Tail(s), n * 10 + DigitVal(Head(s)))

Atoi(s) ==
    IF s = <<>> THEN [ok |-> FALSE, val |-> 0]
    ELSE LET signed == Head(s) \in {"-", "+"}
             body   == IF signed THEN Tail(s) ELSE s
             r      == AtoiDigits(body, 0)
         IN  IF body = <<>> \/ ~r.ok THEN [ok |-> FALSE, val |-> 0]
             ELSE [ok |-> TRUE, val |-> IF Head(s) = "-" THEN 0 - r.val ELSE r.val]

\* time.ParseDuration: [-+]?([0-9]+unit)+ or "0"; the units of the model
\* are "h" and "m" (no fractions: the alphabet has no dot).
UnitMinutes(u) ==
    IF u = <<"h">> THEN 60 ELSE IF u = <<"m">> THEN 1 ELSE 0

RECURSIVE LeadingInt(_, _)
LeadingInt(s, n) ==
    IF s = <<>> \/ ~IsDigit(Head(s)) THEN [val |-> n, rest |-> s]
    ELSE LeadingInt(Tail(s), n * 10 + DigitVal(Head(s)))

RECURSIVE UnitEnd(_, _)
UnitEnd(s, i) ==
    IF i > Len(s) \/ s[i] = "." \/ IsDigit(s[i]) THEN i ELSE UnitEnd(s, i + 1)

RECURSIVE DurationTerms(_, _)
DurationTerms(s, d) ==
    IF s = <<>> THEN [ok |-> TRUE, val |-> d]
    ELSE IF ~IsDigit(Head(s)) THEN [ok |-> FALSE, val |-> 0]
    ELSE LET num  == LeadingInt(s, 0)
             e    == UnitEnd(num.rest, 1)
             unit == SubSeq(num.rest, 1, e - 1)
         IN  IF unit = <<>> \/ UnitMinutes(unit) = 0 THEN [ok |-> FALSE, val |-> 0]
             ELSE DurationTerms(Tail2(num.rest, e), d + num.val * UnitMinutes(unit))

ParseDuration(s) ==
    LET neg  == s # <<>> /\ Head(s) = "-"
        body == IF s # <<>> /\ Head(s) \in {"-", "+"} THEN Tail(s) ELSE s
        r    == DurationTerms(body, 0)
    IN  IF body = <<"0">> THEN [ok |-> TRUE, val |-> 0]
        ELSE IF body = <<>> \/ ~r.ok THEN [ok |-> FALSE, val |-> 0]
        ELSE [ok |-> TRUE, val |-> IF neg THEN 0 - r.val ELSE r.val]

\* ------------------------------------------------------------ frontmatter

\* new(metadata): every field holds its zero value.
ZeroMetadata ==
    [Title |-> <<>>, Description |-> <<>>, Confidential |-> FALSE,
     Assignees |-> <<>>, Labels |-> <<>>, DueIn |-> <<>>, Crontab |-> <<>>,
     Epic |-> <<>>, ProjectId |-> 0, NextTime |-> ZeroTime]

\* frontmatter.Unmarshal and the YAML decoder behind it are libraries outside
\* the repository. A file is given with what Unmarshal(contents, data) makes
\* of its bytes: whether it returns an error, and the fields it has set in
\* data by then. parseMetadata returns nil and the error when Unmarshal
\* returns one, and the filled descriptor otherwise.
parseMetadata(contents) ==
    IF contents.err THEN [ok |-> FALSE, data |-> ZeroMetadata]
    ELSE [ok |-> TRUE, data |-> contents.data]

\* ------------------------------------------------------------------- cron

Every2 == <<"*/2 * * * *">>

Every3 == <<"*/3 * * * *">>

OnceAt2 == <<"2 0 1 1 * 1970">>

\* cronexpr.Parse on the expressions of the model; anything else is an error.
cronexprParse(crontab) ==
    CASE crontab = Every2  -> [ok |-> TRUE, kind |-> "every", n |-> 2]
      [] crontab = Every3  -> [ok |-> TRUE, kind |-> "every", n |-> 3]
      [] crontab = OnceAt2 -> [ok |-> TRUE, kind |-> "once", n |-> 2]
      [] OTHER             -> [ok |-> FALSE, kind |-> "", n |-> 0]

\* Expression.Next: the first matching instant strictly after fromTime, and
\* the zero time when there is none.
cronNext(expr, fromTime) ==
    IF expr.kind = "every" THEN ((fromTime \div expr.n) + 1) * expr.n
    ELSE IF fromTime < expr.n THEN expr.n ELSE ZeroTime

\* ------------------------------------------------------------ environment

VARIABLES
    now,              \* the clock: time.Now()
    ciAPIV4URL,       \* CI_API_V4_URL
    ciProjectID,      \* CI_PROJECT_ID
    files,            \* what the paths under the templates directory hold
    pipelines,        \* the project's finished successful pipelines, as the API lists them
    pc,               \* "idle" | "walk" | "complete": where the job is
    run,              \* the number of runs started
    outcomes,         \* how each run ended: "success" | "failed"
    lr,               \* the last call of getLastRunTime: what it saw and returned
    lastRunTime,      \* main's lastRunTime
    idx,              \* the next path of the walk
    visited,          \* the paths the walk of this run has passed to the callback
    cur,              \* the last call of the walk callback: its inputs and what it did
    issues            \* the issues created on the server, in order

vars ==
    <<now, ciAPIV4URL, ciProjectID, files, pipelines, pc, run, outcomes, lr,
      lastRunTime, idx, visited, cur, issues>>

StartTime == 1

\* CI_JOB_NAME and CI_PROJECT_ROOT_NAMESPACE
ciJobName == <<"i">>

ciProjectRootNamespace == <<"g">>

\* issuesRelativePath and the paths filepath.Walk passes to the callback, in
\* its (lexical) order: the directory itself first.
Templates ==
    << <<"t">>,
       <<"t", "/", "a", ".", "m", "d">>,
       <<"t", "/", "b", ".", "M", "D">>,
       <<"t", "/", "c", ".", "m", "d">> >>

\* gitlab.NewClient fails when the base URL does not parse: here, on a "%"
\* that no two hexadecimal digits follow.
createGitlabClient ==
    [ok |-> ~\E i \in 1..Len(ciAPIV4URL) :
                /\ ciAPIV4URL[i] = "%"
                /\ \/ i + 2 > Len(ciAPIV4URL)
                   \/ ~IsDigit(ciAPIV4URL[i + 1])
                   \/ ~IsDigit(ciAPIV4URL[i + 2])]

\* -------------------------------------------------------- getLastRunTime

\* The jobs named ciJobName of one pipeline, by position.
Matching(jobs) == {j \in 1..Len(jobs) : jobs[j].Name = ciJobName}

FirstOf(S) == CHOOSE i \in S : \A h \in S : i <= h

LastOf(S) == CHOOSE i \in S : \A h \in S : i >= h

\* A variant of the loop that keeps the last pipeline holding the job.
PipelineLoopLast(infos, i, failAt) ==
    LET withJob == {p \in i..Len(infos) : Matching(infos[p]) # {}}
    IN  IF failAt \in i..Len(infos) THEN [ok |-> FALSE, time |-> Epoch]
        ELSE IF withJob = {} THEN [ok |-> TRUE, time |-> Epoch]
        ELSE [ok |-> TRUE,
              time |-> infos[LastOf(withJob)][FirstOf(Matching(infos[LastOf(withJob)]))].FinishedAt]

\* The loop of getLastRunTime from pipeline i on: the first job named
\* ciJobName of the first pipeline that holds one. failAt is the pipeline
\* whose job listing fails (0: none does).
RECURSIVE PipelineLoop(_, _, _)
PipelineLoop(infos, i, failAt) ==
    IF i > Len(infos) THEN [ok |-> TRUE, time |-> Epoch]
    ELSE IF i = failAt THEN [ok |-> FALSE, time |-> Epoch]
    ELSE IF Matching(infos[i]) # {}
         THEN [ok |-> TRUE, time |-> infos[i][FirstOf(Matching(infos[i]))].FinishedAt]
    ELSE PipelineLoop(infos, i + 1, failAt)

\* getLastRunTime: listOK is whether ListProjectPipelines succeeds.
getLastRunTime(infos, listOK, failAt) ==
    IF ~createGitlabClient.ok THEN [ok |-> FALSE, time |-> Epoch]
    ELSE IF ~listOK THEN [ok |-> FALSE, time |-> Epoch]
    ELSE PipelineLoop(infos, 1, failAt)

\* ------------------------------------------------------------ createIssue

\* One call of the REST client: the API, the project it addresses, its
\* numeric arguments, its search string and (CreateIssue) its options.
Call(api, pid, args, search, opts) ==
    [api |-> api, pid |-> pid, args |-> args, search |-> search, opts |-> opts]

\* What the server answers to the calls of one createIssue.
CreateResponses == {[ok |-> FALSE, id |-> 0], [ok |-> TRUE, id |-> 100]}

GroupResponses ==
    {[ok |-> FALSE, ids |-> <<>>], [ok |-> TRUE, ids |-> <<>>],
     [ok |-> TRUE, ids |-> <<11>>], [ok |-> TRUE, ids |-> <<11, 12>>]}

EpicResponses ==
    {[ok |-> FALSE, ids |-> <<>>], [ok |-> TRUE, ids |-> <<>>],
     [ok |-> TRUE, ids |-> <<21>>], [ok |-> TRUE, ids |-> <<21, 22>>]}

Responses ==
    [create : CreateResponses, groups : GroupResponses, epics : EpicResponses,
     assign : BOOLEAN]

NoResponse ==
    [create |-> [ok |-> FALSE, id |-> 0], groups |-> [ok |-> FALSE, ids |-> <<>>],
     epics |-> [ok |-> FALSE, ids |-> <<>>], assign |-> FALSE]

\* A variant of IssueDueDate that counts the duration from the current time.
IssueDueDateFromNow(data) ==
    IF data.DueIn = <<>> THEN [ok |-> TRUE, due |-> <<>>]
    ELSE LET duration == ParseDuration(data.DueIn)
         IN  IF ~duration.ok THEN [ok |-> FALSE, due |-> <<>>]
             ELSE [ok |-> TRUE, due |-> <<now + duration.val>>]

\* The optional due date: none, or NextTime plus the duration of duein.
IssueDueDate(data) ==
    IF data.DueIn = <<>> THEN [ok |-> TRUE, due |-> <<>>]
    ELSE LET duration == ParseDuration(data.DueIn)
         IN  IF ~duration.ok THEN [ok |-> FALSE, due |-> <<>>]
             ELSE [ok |-> TRUE, due |-> <<data.NextTime + duration.val>>]

\* A variant of IssueOptions that passes the labels and assignees on.
IssueOptionsWithLabels(data, due) ==
    [Title |-> data.Title, Description |-> data.Description,
     Confidential |-> data.Confidential, CreatedAt |-> data.NextTime,
     DueDate |-> due, Labels |-> data.Labels, AssigneeIDs |-> data.Assignees]

\* gitlab.CreateIssueOptions as createIssue fills it.
IssueOptions(data, due) ==
    [Title |-> data.Title, Description |-> data.Description,
     Confidential |-> data.Confidential, CreatedAt |-> data.NextTime,
     DueDate |-> due]

\* A variant of IssueProject that parses CI_PROJECT_ID only when it needs it.
IssueProjectLazy(data) ==
    IF data.ProjectId # 0 THEN [ok |-> TRUE, id |-> data.ProjectId]
    ELSE [ok |-> Atoi(ciProjectID).ok, id |-> Atoi(ciProjectID).val]

\* The project of the issue: CI_PROJECT_ID as an integer, which must parse
\* first, and then the descriptor's project when it names one.
IssueProject(data) ==
    LET issueProjectId == Atoi(ciProjectID)
    IN  IF ~issueProjectId.ok THEN [ok |-> FALSE, id |-> 0]
        ELSE [ok |-> TRUE,
              id |-> IF data.ProjectId # 0 THEN data.ProjectId ELSE issueProjectId.val]

\* A variant of ExactlyOne that takes the first of several results.
ExactlyOneOrMore(ids) == Len(ids) >= 1

\* The negation of len(groups) != 1 and of len(epics) != 1, which end the
\* program with log.Fatal.
ExactlyOne(ids) == Len(ids) = 1

\* getGroupIdFromNamespace: "nil" with the id, "err", or "fatal".
getGroupIdFromNamespace(groups) ==
    LET calls == <<Call("ListGroups", 0, <<>>, ciProjectRootNamespace, <<>>)>>
    IN  IF ~createGitlabClient.ok THEN [calls |-> <<>>, result |-> "err", id |-> 0]
        ELSE IF ~groups.ok THEN [calls |-> calls, result |-> "err", id |-> 0]
        ELSE IF ~ExactlyOne(groups.ids) THEN [calls |-> calls, result |-> "fatal", id |-> 0]
        ELSE [calls |-> calls, result |-> "nil", id |-> groups.ids[1]]

\* getEpicId
getEpicId(groupId, epicName, epics) ==
    LET calls == <<Call("ListGroupEpics", 0, <<groupId>>, epicName, <<>>)>>
    IN  IF ~createGitlabClient.ok THEN [calls |-> <<>>, result |-> "err", id |-> 0]
        ELSE IF ~epics.ok THEN [calls |-> calls, result |-> "err", id |-> 0]
        ELSE IF ~ExactlyOne(epics.ids) THEN [calls |-> calls, result |-> "fatal", id |-> 0]
        ELSE [calls |-> calls, result |-> "nil", id |-> epics.ids[1]]

\* The epic branch of createIssue, once the issue exists.
assignEpic(data, api, issueId) ==
    LET g == getGroupIdFromNamespace(api.groups)
        e == getEpicId(g.id, data.Epic, api.epics)
        a == <<Call("AssignEpicIssue", 0, <<g.id, e.id, issueId>>, <<>>, <<>>)>>
    IN  IF g.result # "nil" THEN [calls |-> g.calls, result |-> g.result]
        ELSE IF e.result # "nil" THEN [calls |-> g.calls \o e.calls, result |-> e.result]
        ELSE [calls |-> g.calls \o e.calls \o a,
              result |-> IF api.assign THEN "nil" ELSE "err"]

createIssue(data, api) ==
    LET due     == IssueDueDate(data)
        project == IssueProject(data)
        create  == <<Call("CreateIssue", project.id, <<>>, <<>>,
                          <<IssueOptions(data, due.due)>>)>>
        epic    == assignEpic(data, api, api.create.id)
    IN  IF ~createGitlabClient.ok THEN [calls |-> <<>>, result |-> "err"]
        ELSE IF ~due.ok THEN [calls |-> <<>>, result |-> "err"]
        ELSE IF ~project.ok THEN [calls |-> <<>>, result |-> "err"]
        ELSE IF ~api.create.ok THEN [calls |-> create, result |-> "err"]
        ELSE IF data.Epic = <<>> THEN [calls |-> create, result |-> "nil"]
        ELSE [calls |-> create \o epic.calls, result |-> epic.result]

\* ------------------------------------------------------- processIssueFile

MdExt == <<".", "m", "d">>

\* A variant of Skipped that skips only the paths without any extension.
SkippedNoExt(path) == Ext(path) = <<>>

\* filepath.Ext(path) != ".md"
Skipped(path) == Ext(path) # MdExt

\* A variant of Due that takes an occurrence at the current time as due.
DueAtOrBefore(nextTime, t) == nextTime <= t

\* data.NextTime.Before(time.Now())
Due(nextTime, t) == nextTime < t

\* A variant of whenDue that logs the error of createIssue and goes on.
whenDueIgnoringError(data, api) ==
    LET err == createIssue(data, api)
    IN  IF Due(data.NextTime, now)
        THEN [invoked |-> TRUE, calls |-> err.calls, result |-> "nil"]
        ELSE [invoked |-> FALSE, calls |-> <<>>, result |-> "nil"]

\* The last statement of the callback: create the issue when it is due.
whenDue(data, api) ==
    LET err == createIssue(data, api)
    IN  IF Due(data.NextTime, now)
        THEN [invoked |-> TRUE, calls |-> err.calls, result |-> err.result]
        ELSE [invoked |-> FALSE, calls |-> <<>>, result |-> "nil"]

\* One call of the callback processIssueFile(lastTime) returns: what it was
\* given (the path, the walk's error, whether the file can be read, the
\* server's answers), how far it went, and its result: "nil", "err" (the
\* error it returns) or "fatal" (log.Fatal ended the program).
processIssueFile(lastTime, path, contents, walkErr, readOK, api) ==
    LET base == [path |-> path, at |-> now, last |-> lastTime, walkErr |-> walkErr,
                 readOK |-> readOK, api |-> api, read |-> FALSE, parsed |-> FALSE,
                 cron |-> FALSE, data |-> ZeroMetadata, invoked |-> FALSE,
                 calls |-> <<>>, result |-> "nil"]
        meta == parseMetadata(contents)
        expr == cronexprParse(meta.data.Crontab)
        data == [meta.data EXCEPT !.NextTime = cronNext(expr, lastTime)]
        due  == whenDue(data, api)
    IN  IF walkErr THEN [base EXCEPT !.result = "fatal"]
        ELSE IF Skipped(path) THEN base
        ELSE IF ~readOK THEN [base EXCEPT !.read = TRUE, !.result = "err"]
        ELSE IF ~meta.ok THEN [base EXCEPT !.read = TRUE, !.result = "err"]
        ELSE IF ~expr.ok
             THEN [base EXCEPT !.read = TRUE, !.parsed = TRUE, !.data = meta.data,
                               !.result = "err"]
        ELSE [base EXCEPT !.read = TRUE, !.parsed = TRUE, !.cron = TRUE,
                          !.data = data, !.invoked = due.invoked,
                          !.calls = due.calls, !.result = due.result]

\* ------------------------------------------------------------------ files

T1 == <<"T">>

Body == <<"x">>

\* What Unmarshal makes of a file: no error, and the descriptor d.
File(d) == [err |-> FALSE, data |-> d]

\* What the directory holds: no file contents; it is never read.
NoFile == [err |-> TRUE, data |-> ZeroMetadata]

\* The templates a .md path may hold.
Plain ==
    File([ZeroMetadata EXCEPT !.Title = T1, !.Crontab = Every2, !.Description = Body])

WithEpic ==
    File([ZeroMetadata EXCEPT !.Title = T1, !.Crontab = Every3, !.DueIn = <<"1", "h">>,
                              !.Epic = <<"E">>, !.Labels = <<<<"l">>>>,
                              !.Description = Body])

OneShot ==
    File([ZeroMetadata EXCEPT !.Crontab = OnceAt2, !.ProjectId = 9,
                              !.Confidential = TRUE,
                              !.Assignees = <<<<"u">>, <<"v">>>>])

BadDueIn ==
    File([ZeroMetadata EXCEPT !.Crontab = Every2, !.DueIn = <<"1", "2">>,
                              !.ProjectId = 9, !.Description = Body])

BadCrontab ==
    File([ZeroMetadata EXCEPT !.Title = T1, !.Crontab = <<"x">>, !.Description = Body])

\* A frontmatter the decoder rejects after it has set the title.
BadYaml == [err |-> TRUE, data |-> [ZeroMetadata EXCEPT !.Title = T1]]

MdFiles == {Plain, WithEpic, OneShot, BadDueIn, BadCrontab, BadYaml}

\* What the paths of Templates hold: the directory nothing, a.md any of the
\* templates, b.MD and c.md a plain one.
Directories == {<<NoFile, a, Plain, Plain>> : a \in MdFiles}

\* ---------------------------------------------------------------- actions

NoCallback ==
    [path |-> <<>>, at |-> Epoch, last |-> Epoch, walkErr |-> FALSE, readOK |-> TRUE,
     api |-> NoResponse, read |-> FALSE, parsed |-> FALSE, cron |-> FALSE,
     data |-> ZeroMetadata, invoked |-> FALSE, calls |-> <<>>, result |-> "nil"]

NoLastRun ==
    [seen |-> <<>>, listOK |-> TRUE, failAt |-> 0, called |-> FALSE, ok |-> TRUE,
     time |-> Epoch]

Init ==
    /\ now = StartTime
    /\ ciAPIV4URL \in {<<"h">>, <<"h", "%">>}
    /\ ciProjectID \in {<<>>, <<"7">>, <<"g", "/", "p">>}
    /\ files \in Directories
    /\ pipelines = <<>>
    /\ pc = "idle"
    /\ run = 0
    /\ outcomes = <<>>
    /\ lr = NoLastRun
    /\ lastRunTime = Epoch
    /\ idx = 1
    /\ visited = <<>>
    /\ cur = NoCallback
    /\ issues = <<>>

\* Time passes.
Tick ==
    /\ now < MaxTime
    /\ now' = now + 1
    /\ UNCHANGED <<ciAPIV4URL, ciProjectID, files, pipelines, pc, run, outcomes, lr,
                   lastRunTime, idx, visited, cur, issues>>

\* Another pipeline of the project, without the job, finishes successfully.
OtherPipeline ==
    /\ pc = "idle"
    /\ Cardinality({p \in 1..Len(pipelines) : Matching(pipelines[p]) = {}}) < MaxOther
    /\ pipelines' = <<<<[Name |-> <<"b">>, FinishedAt |-> now]>>>> \o pipelines
    /\ UNCHANGED <<now, ciAPIV4URL, ciProjectID, files, pc, run, outcomes, lr,
                   lastRunTime, idx, visited, cur, issues>>

\* Which job listing of getLastRunTime can fail: one the loop reaches.
Reached(infos, p) == \A q \in 1..(p - 1) : Matching(infos[q]) = {}

\* main up to the walk: the environment, then getLastRunTime.
MainStart ==
    /\ pc = "idle"
    /\ run < MaxRuns
    /\ run' = run + 1
    /\ visited' = <<>>
    /\ idx' = 1
    /\ cur' = NoCallback
    /\ IF ciProjectID = <<>>
       THEN /\ lr' = NoLastRun
            /\ outcomes' = Append(outcomes, "failed")
            /\ UNCHANGED <<pc, lastRunTime>>
       ELSE \E listOK \in BOOLEAN, failAt \in 0..Len(pipelines) :
               LET r == getLastRunTime(pipelines, listOK, failAt)
               IN  /\ failAt # 0 => listOK /\ createGitlabClient.ok /\ Reached(pipelines, failAt)
                   /\ ~createGitlabClient.ok => listOK
                   /\ lr' = [seen |-> pipelines, listOK |-> listOK, failAt |-> failAt,
                             called |-> TRUE, ok |-> r.ok, time |-> r.time]
                   /\ IF r.ok
                      THEN /\ lastRunTime' = r.time
                           /\ pc' = "walk"
                           /\ UNCHANGED outcomes
                      ELSE /\ outcomes' = Append(outcomes, "failed")
                           /\ UNCHANGED <<pc, lastRunTime>>
    /\ UNCHANGED <<now, ciAPIV4URL, ciProjectID, files, pipelines, issues>>

Called(calls, api) == \E i \in 1..Len(calls) : calls[i].api = api

\* The answers and outcomes the callback did not use are left at their defaults.
Canonical(c) ==
    /\ ~c.read => c.readOK
    /\ ~Called(c.calls, "CreateIssue") => c.api.create = NoResponse.create
    /\ ~Called(c.calls, "ListGroups") => c.api.groups = NoResponse.groups
    /\ ~Called(c.calls, "ListGroupEpics") => c.api.epics = NoResponse.epics
    /\ ~Called(c.calls, "AssignEpicIssue") => c.api.assign = NoResponse.assign

\* The issue the server holds after a CreateIssue that succeeded.
Created(c) == Called(c.calls, "CreateIssue") /\ c.api.create.ok

\* filepath.Walk passes the next path to the callback; an error ends the
\* walk and main ends the program with log.Fatal.
WalkStep ==
    /\ pc = "walk"
    /\ \E walkErr \in BOOLEAN, readOK \in BOOLEAN, api \in Responses :
          \E c \in {processIssueFile(lastRunTime, Templates[idx], files[idx],
                                    walkErr, readOK, api)} :
              /\ Canonical(c)
              /\ cur' = c
              /\ visited' = Append(visited, idx)
              /\ issues' = IF Created(c)
                           THEN Append(issues, [file |-> idx, at |-> c.data.NextTime,
                                                run |-> run])
                           ELSE issues
              /\ IF c.result # "nil"
                 THEN /\ pc' = "idle"
                      /\ outcomes' = Append(outcomes, "failed")
                      /\ idx' = idx
                 ELSE /\ pc' = IF idx = Len(Templates) THEN "complete" ELSE "walk"
                      /\ idx' = IF idx = Len(Templates) THEN idx ELSE idx + 1
                      /\ UNCHANGED outcomes
    /\ UNCHANGED <<now, ciAPIV4URL, ciProjectID, files, pipelines, run, lr, lastRunTime>>

\* "Run complete": the job finishes, and with it its pipeline, which the
\* API lists first from now on.
RunComplete ==
    /\ pc = "complete"
    /\ pc' = "idle"
    /\ outcomes' = Append(outcomes, "success")
    /\ pipelines' = <<<<[Name |-> <<"b">>, FinishedAt |-> lastRunTime],
                        [Name |-> ciJobName, FinishedAt |-> now]>>>> \o pipelines
    /\ UNCHANGED <<now, ciAPIV4URL, ciProjectID, files, run, lr, lastRunTime, idx,
                   visited, cur, issues>>

Next == Tick \/ OtherPipeline \/ MainStart \/ WalkStep \/ RunComplete

Spec == Init /\ [][Next]_vars

\* ------------------------------------------------------------- properties

\* The callback has been called in this run; cur is its last call and
\* CurFile what its path holds.
Visiting == visited # <<>>

CurFile == files[visited[Len(visited)]]

CurMeta == parseMetadata(CurFile)

CurExpr == cronexprParse(CurMeta.data.Crontab)

\* The path ends in ".md".
EndsWithMd(path) ==
    Len(path) >= 3 /\ SubSeq(path, Len(path) - 2, Len(path)) = <<".", "m", "d">>

\* The last run was ended by an error.
RunFailed ==
    pc = "idle" /\ run >= 1 /\ Len(outcomes) = run /\ outcomes[run] = "failed"

\* The walk of this run has not been ended by an error.
WalkGoesOn ==
    \/ pc \in {"walk", "complete"}
    \/ pc = "idle" /\ Len(outcomes) = run /\ outcomes[run] = "success"

CreateCalls(calls) == {i \in 1..Len(calls) : calls[i].api = "CreateIssue"}

\* The callback got as far as the due test: a .md path, read, whose
\* frontmatter and crontab parse.
ReachedDueTest ==
    /\ Visiting
    /\ ~cur.walkErr
    /\ EndsWithMd(cur.path)
    /\ cur.readOK
    /\ CurMeta.ok
    /\ CurExpr.ok

\* C1. For a .md file whose frontmatter and crontab parse, createIssue is
\* called if and only if NextTime = Next(crontab, lastTime) is strictly
\* before the current time; otherwise no API call is made for the file and
\* the walk continues.
C1_CreateIffDue ==
    ReachedDueTest =>
        /\ cur.last = lastRunTime
        /\ cur.data.NextTime = cronNext(CurExpr, cur.last)
        /\ cur.invoked <=> cur.data.NextTime < cur.at
        /\ cur.data.NextTime >= cur.at =>
              cur.calls = <<>> /\ cur.result = "nil" /\ WalkGoesOn

C1_Witness == ReachedDueTest /\ cur.invoked /\ Created(cur)

\* C2. getLastRunTime returns the finish time of the job named CI_JOB_NAME
\* of the first listed pipeline that holds such a job, the epoch (and no
\* error) when no listed pipeline holds one, and an error when a listing
\* it makes fails.
C2_LastRunTime ==
    lr.called =>
        LET seen    == lr.seen
            holding == {p \in 1..Len(seen) :
                          \E j \in 1..Len(seen[p]) : seen[p][j].Name = ciJobName}
            failed  == ~createGitlabClient.ok \/ ~lr.listOK \/ lr.failAt # 0
        IN  /\ failed => ~lr.ok /\ outcomes[run] = "failed"
            /\ ~failed /\ holding = {} => lr.ok /\ lr.time = Epoch
            /\ ~failed /\ holding # {} =>
                  /\ lr.ok
                  /\ \E j \in 1..Len(seen[FirstOf(holding)]) :
                        /\ seen[FirstOf(holding)][j].Name = ciJobName
                        /\ \A h \in 1..(j - 1) : seen[FirstOf(holding)][h].Name # ciJobName
                        /\ lr.time = seen[FirstOf(holding)][j].FinishedAt
            /\ lr.ok /\ pc = "walk" => lastRunTime = lr.time

C2_Witness ==
    /\ lr.called
    /\ lr.ok
    /\ Len(lr.seen) >= 2
    /\ Matching(lr.seen[1]) = {}
    /\ lr.time # Epoch

\* What makes a callback fail: the read, the frontmatter, the crontab, the
\* due-in duration, CI_PROJECT_ID, or a call of the API.
ApiFailed ==
    \/ Called(cur.calls, "CreateIssue") /\ ~cur.api.create.ok
    \/ Called(cur.calls, "ListGroups") /\ ~cur.api.groups.ok
    \/ Called(cur.calls, "ListGroupEpics") /\ ~cur.api.epics.ok
    \/ Called(cur.calls, "AssignEpicIssue") /\ ~cur.api.assign

Errored ==
    /\ Visiting
    /\ ~cur.walkErr
    /\ EndsWithMd(cur.path)
    /\ \/ ~cur.readOK
       \/ ~CurMeta.ok
       \/ ~CurExpr.ok
       \/ ApiFailed

C3_OncePerFile ==
    /\ \A i, j \in 1..Len(visited) : visited[i] = visited[j] => i = j
    /\ Cardinality(CreateCalls(cur.calls)) <= 1
    /\ \A i, j \in 1..Len(issues) :
          issues[i].run = issues[j].run /\ issues[i].file = issues[j].file => i = j
    /\ Errored => cur.result = "err"
    /\ Visiting /\ cur.result # "nil" => RunFailed /\ visited[Len(visited)] = idx
    /\ Visiting /\ WalkGoesOn => cur.result = "nil"
    /\ Visiting /\ Created(cur) =>
          /\ issues # <<>>
          /\ issues[Len(issues)] =
                [file |-> visited[Len(visited)], at |-> cur.data.NextTime, run |-> run]

C3_IssuesKept ==
    \A i \in 1..Len(issues) : i <= Len(issues') /\ issues'[i] = issues[i]

\* C3. No retry: in one run each file is visited once and CreateIssue is
\* attempted at most once per file; the first error of a callback ends the
\* walk and the run, so that no later file is processed; the issues
\* created before stay.
C3_NoRetry == []C3_OncePerFile /\ [][C3_IssuesKept]_vars

C3_Witness ==
    /\ Visiting
    /\ cur.result = "err"
    /\ issues # <<>>
    /\ issues[Len(issues)].run = run
    /\ issues[Len(issues)].file < visited[Len(visited)]

Chain == <<"CreateIssue", "ListGroups", "ListGroupEpics", "AssignEpicIssue">>

\* C4. Epic linking follows issue creation: without an epic, createIssue
\* makes no group lookup, epic lookup or AssignEpicIssue call; with one, they
\* happen in that order after CreateIssue has succeeded, and AssignEpicIssue
\* only if each search returned exactly one result: otherwise the program
\* ends with the issue created and not linked.
C4_EpicAfterCreate ==
    Visiting =>
        LET calls  == cur.calls
            groups == cur.api.groups
            epics  == cur.api.epics
        IN  /\ Len(calls) <= 4
            /\ \A i \in 1..Len(calls) : calls[i].api = Chain[i]
            /\ cur.data.Epic = <<>> => Len(calls) <= 1
            /\ Len(calls) >= 2 => cur.api.create.ok
            /\ cur.data.Epic # <<>> /\ Created(cur) => Len(calls) >= 2
            /\ Len(calls) >= 3 =>
                  groups.ok /\ Len(groups.ids) = 1 /\ calls[3].args = <<groups.ids[1]>>
            /\ Len(calls) = 4 =>
                  /\ epics.ok
                  /\ Len(epics.ids) = 1
                  /\ calls[4].args = <<groups.ids[1], epics.ids[1], cur.api.create.id>>
            /\ Len(calls) = 2 /\ groups.ok /\ Len(groups.ids) # 1 =>
                  cur.result = "fatal" /\ RunFailed /\ Created(cur)
            /\ Len(calls) = 3 /\ epics.ok /\ Len(epics.ids) # 1 =>
                  cur.result = "fatal" /\ RunFailed /\ Created(cur)

C4_Witness == Visiting /\ Len(cur.calls) = 4 /\ cur.result = "nil"

\* What the callback does with a path the walk passes without an error.
FilteredByExtension ==
    IF ~EndsWithMd(cur.path)
    THEN /\ ~cur.read
         /\ ~cur.parsed
         /\ cur.calls = <<>>
         /\ cur.result = "nil"
         /\ WalkGoesOn
    ELSE /\ cur.read
         /\ cur.readOK => cur.parsed = CurMeta.ok
         /\ cur.parsed => cur.data.Title = CurMeta.data.Title

\* C5 as stated: every path the walk visits is skipped, without a read, an
\* API call or an error, when its extension is not exactly ".md", and is
\* read and parsed when it is.
C5_EveryPath == Visiting => FilteredByExtension

\* C5, amended: this holds of the paths the walk passes without an error;
\* a path passed with an error ends the program, whatever its extension.
C5_ExtensionFilter ==
    Visiting =>
        IF cur.walkErr
        THEN cur.result = "fatal" /\ ~cur.read /\ cur.calls = <<>> /\ RunFailed
        ELSE FilteredByExtension

C5_Witness ==
    /\ Visiting
    /\ ~cur.walkErr
    /\ Ext(cur.path) = <<".", "M", "D">>
    /\ WalkGoesOn

\* C7. createIssue creates the issue in the descriptor's projectid when it
\* is not zero and otherwise in the project CI_PROJECT_ID names as an
\* integer; when CI_PROJECT_ID is not an integer it returns an error
\* without calling CreateIssue, whatever the descriptor's projectid.
C7_Project ==
    Visiting /\ cur.invoked =>
        /\ \A i \in CreateCalls(cur.calls) :
              /\ cur.data.ProjectId # 0 => cur.calls[i].pid = cur.data.ProjectId
              /\ cur.data.ProjectId = 0 => ciProjectID = <<"7">> /\ cur.calls[i].pid = 7
        /\ ciProjectID = <<"g", "/", "p">> =>
              cur.calls = <<>> /\ cur.result = "err" /\ ~Created(cur) /\ RunFailed

C7_Witness ==
    /\ Visiting
    /\ cur.invoked
    /\ cur.data.ProjectId = 9
    /\ ciProjectID = <<"g", "/", "p">>
    /\ createGitlabClient.ok
    /\ cur.result = "err"

\* C8. The create request carries NextTime as its created-at; no due date
\* when duein is empty; NextTime plus the duration when duein is a duration
\* ("1h" is sixty minutes); and when duein is not empty and not a duration,
\* createIssue returns an error before any call: no issue for that file.
C8_DueDate ==
    Visiting /\ cur.invoked =>
        /\ \A i \in CreateCalls(cur.calls) :
              LET options == cur.calls[i].opts[1]
              IN  /\ options.CreatedAt = cur.data.NextTime
                  /\ cur.data.NextTime = cronNext(CurExpr, cur.last)
                  /\ cur.data.DueIn = <<>> => options.DueDate = <<>>
                  /\ cur.data.DueIn = <<"1", "h">> =>
                        options.DueDate = <<cur.data.NextTime + 60>>
                  /\ cur.data.DueIn \in {<<>>, <<"1", "h">>}
        /\ cur.data.DueIn = <<"1", "2">> =>
              /\ cur.calls = <<>>
              /\ cur.result = "err"
              /\ \A k \in 1..Len(issues) :
                    ~(issues[k].run = run /\ issues[k].file = visited[Len(visited)])

C8_Witness ==
    /\ Visiting
    /\ Created(cur)
    /\ cur.data.DueIn = <<"1", "h">>
    /\ cur.data.NextTime + 60 # cur.at + 60

\* C9. Across the runs, each of which takes as its last run time the finish
\* time of the latest earlier run that succeeded (the epoch when there is
\* none), no two issues are created for the same file with the same NextTime.
C9_NoDuplicates ==
    \A i, j \in 1..Len(issues) :
        i < j => ~(issues[i].file = issues[j].file /\ issues[i].at = issues[j].at)

\* The assignee lists and label lists a descriptor may hold.
Names == {<<>>, <<<<"u">>>>, <<<<"l">>, <<"k">>>>}

\* C10. Assignees and labels have no effect: with any other assignees and
\* labels in the descriptor, createIssue makes the same calls with the same
\* options and returns the same; the options of CreateIssue are the title,
\* the description, confidential, created-at and the optional due date.
C10_NoEffect ==
    Visiting /\ cur.invoked =>
        /\ \A a \in Names, l \in Names :
              createIssue([cur.data EXCEPT !.Assignees = a, !.Labels = l], cur.api) =
                 [calls |-> cur.calls, result |-> cur.result]
        /\ \A i \in CreateCalls(cur.calls) :
              DOMAIN cur.calls[i].opts[1] =
                 {"Title", "Description", "Confidential", "CreatedAt", "DueDate"}

C10_Witness ==
    /\ Visiting
    /\ Created(cur)
    /\ cur.data.Labels = <<<<"l">>>>
    /\ cur.data.Assignees = <<>>

====
